---- MODULE Spec2Model ----
(***************************************************************************)
(* Model of src/main.rs: the monkey_ffi gateway (four process-wide         *)
(* identifier counters) and the capability-parameterised handle tree       *)
(* Root -> Window -> {Frame -> FrameButton, WindowButton}.                 *)
(*                                                                         *)
(* A caller is modelled as an arbitrary client of the API that keeps its   *)
(* handle values in nested scopes: it holds at most MaxHandles of them,    *)
(* calls any method the receiver type offers and the borrow rules of the   *)
(* method's signature permit, and ends the use of the handle it obtained   *)
(* last (Drop).  The borrow rules are read off the signatures: a method    *)
(* taking `&mut self` that returns a handle keeps an exclusive borrow of   *)
(* the receiver while that handle is in use, a method taking `&self`       *)
(* keeps a shared one.                                                     *)
(*                                                                         *)
(* The counters are usize; a run mints at most MaxMints identifiers, so    *)
(* no counter comes near its maximum.  is_clicked, click and set_text of   *)
(* the two button types read and write nothing but the button's own text   *)
(* and are left out.                                                       *)
(***************************************************************************)
EXTENDS Integers, Sequences, FiniteSets, Bags, TLC

\* ---- bounds of the model ----
\* the gateway mints at most MaxMints identifiers in a run, the caller holds at most
\* MaxHandles handles at a time and passes identifiers 0..MaxId
MaxMints == 5
MaxHandles == 3
MaxId == 2

\* ---- program constants ----
WindowWidth == 400
U16Max == 65535

Slots == 1..MaxHandles
RootRef == 0
Ids == 0..MaxId
Names == {"", "main"}
Widths == {0, WindowWidth, U16Max}

VARIABLES
    MONKEY_WINDOWS_AMOUNT,
    MONKEY_FRAMES_AMOUNT,
    MONKEY_WINDOW_BUTTONS_AMOUNT,
    MONKEY_FRAME_BUTTONS_AMOUNT,
    handles,      \* the handle values the caller holds, in the order it obtained them
    panicked,     \* an `expect` failed: the process aborted
    last,         \* the call that produced this state, with its inputs and result
    minted,       \* bag of [kind, parent, id]: what the make_* calls have returned
    widthLog      \* per handle: <<w>> when set_width(w) was the last set_width on it

vars == <<MONKEY_WINDOWS_AMOUNT, MONKEY_FRAMES_AMOUNT, MONKEY_WINDOW_BUTTONS_AMOUNT,
          MONKEY_FRAME_BUTTONS_AMOUNT, handles, panicked, last, minted, widthLog>>

counters == <<MONKEY_WINDOWS_AMOUNT, MONKEY_FRAMES_AMOUNT, MONKEY_WINDOW_BUTTONS_AMOUNT,
              MONKEY_FRAME_BUTTONS_AMOUNT>>

\* ---- monkey_ffi: each returns the counter after the call and the id returned ----
\* make_window returning the counter as it was before the increment
make_window_stale(amount) == [amount |-> amount + 1, id |-> amount]

make_window(amount) == [amount |-> amount + 1, id |-> amount + 1]

\* get_window comparing with >= instead of >
get_window_strict(window_id, amount) == IF window_id >= amount THEN 0 ELSE amount

get_window(window_id, amount) == IF window_id > amount THEN 0 ELSE amount

make_frame(amount) == [amount |-> amount + 1, id |-> amount + 1]

make_window_button(amount) == [amount |-> amount + 1, id |-> amount + 1]

\* make_frame_button that does not store the incremented counter
make_frame_button_stuck(amount) == [amount |-> amount, id |-> amount + 1]

make_frame_button(amount) == [amount |-> amount + 1, id |-> amount + 1]

\* ---- handle values ----
\* Option<u16> is << >> for None and <<w>> for Some(w).
NoHandle ==
    [kind |-> "None", mut |-> FALSE, parent |-> RootRef, id |-> 0, name |-> "",
     frames_amount |-> 0, buttons_amount |-> 0, width_px |-> << >>]

None == [some |-> FALSE, val |-> NoHandle]

Some(v) == [some |-> TRUE, val |-> v]

\* Window::new initialising frames_amount from id
Window_new_counted(root, id, amount, mutability) ==
    IF get_window(id, amount) = 0
    THEN None
    ELSE Some([kind |-> "Window", mut |-> mutability, parent |-> root, id |-> id,
               name |-> "", frames_amount |-> id, buttons_amount |-> 0,
               width_px |-> << >>])

\* Window::new: Option<Window<T>>, T = Mutable iff mutability
Window_new(root, id, amount, mutability) ==
    IF get_window(id, amount) = 0
    THEN None
    ELSE Some([kind |-> "Window", mut |-> mutability, parent |-> root, id |-> id,
               name |-> "", frames_amount |-> 0, buttons_amount |-> 0,
               width_px |-> << >>])

Window_get_width(w) == WindowWidth

\* Frame::new: the gateway call it makes, then the match on its result
Frame_new(window, id, amount, mutability) ==
    LET r == make_frame(amount)
    IN  [amount |-> r.amount,
         opt |-> IF r.id = 0
                 THEN None
                 ELSE Some([kind |-> "Frame", mut |-> mutability, parent |-> window,
                            id |-> r.id, name |-> "", frames_amount |-> 0,
                            buttons_amount |-> 0, width_px |-> << >>])]

\* Frame::get_width ignoring the override
Frame_get_width_inherited(f, w) == Window_get_width(w)

Frame_get_width(f, w) ==
    IF f.width_px = << >> THEN Window_get_width(w) ELSE f.width_px[1]

WindowButton_new(parent, id, amount, mutability) ==
    LET r == make_window_button(amount)
    IN  [amount |-> r.amount,
         opt |-> IF r.id = 0
                 THEN None
                 ELSE Some([kind |-> "WindowButton", mut |-> mutability,
                            parent |-> parent, id |-> r.id, name |-> "",
                            frames_amount |-> 0, buttons_amount |-> 0,
                            width_px |-> << >>])]

FrameButton_new(parent, id, amount, mutability) ==
    LET r == make_frame_button(amount)
    IN  [amount |-> r.amount,
         opt |-> IF r.id = 0
                 THEN None
                 ELSE Some([kind |-> "FrameButton", mut |-> mutability,
                            parent |-> parent, id |-> r.id, name |-> "",
                            frames_amount |-> 0, buttons_amount |-> 0,
                            width_px |-> << >>])]

\* ---- the caller's handles and the borrows they keep ----
Live(h) == h \in 1..Len(handles)

Children(p) == {h \in Slots : Live(h) /\ handles[h].parent = p}

HasFree == Len(handles) < MaxHandles

FreeSlot == Len(handles) + 1

\* `&mut self` on p: no handle borrowed from p is still in use
BorrowMut(p) == Children(p) = {}

\* `&self` on p: no handle holding an exclusive borrow of p is still in use
BorrowShared(p) == \A h \in Children(p) : ~handles[h].mut

IsA(h, kind, mutability) ==
    Live(h) /\ handles[h].kind = kind /\ handles[h].mut = mutability

\* The record of a call: the method, its receiver (RootRef or a position in handles),
\* its argument, whether it returned a handle, that handle's id and position, and the
\* gateway counters and the receiver's cached counters as they were before the call.
NoCall ==
    [op |-> "init", recv |-> RootRef, arg |-> 0, some |-> FALSE, id |-> 0, h |-> 0,
     pre |-> <<0, 0, 0, 0>>, preFrames |-> 0, preButtons |-> 0]

Call(op, recv, arg, opt, h) ==
    [op |-> op, recv |-> recv, arg |-> arg, some |-> opt.some, id |-> opt.val.id,
     h |-> IF opt.some THEN h ELSE 0, pre |-> counters,
     preFrames |-> IF recv = RootRef THEN 0 ELSE handles[recv].frames_amount,
     preButtons |-> IF recv = RootRef THEN 0 ELSE handles[recv].buttons_amount]

Push(held, opt) == IF opt.some THEN Append(held, opt.val) ELSE held

\* widthLog kept as long as handles: a new handle has had no set_width
Logged(n) == [h \in 1..n |-> IF h <= Len(widthLog) THEN widthLog[h] ELSE << >>]

\* n more identifiers can be minted within the bound of the model
Budget(n) ==
    MONKEY_WINDOWS_AMOUNT + MONKEY_FRAMES_AMOUNT + MONKEY_WINDOW_BUTTONS_AMOUNT
        + MONKEY_FRAME_BUTTONS_AMOUNT + n <= MaxMints

Mint(kind, parent, id) == SetToBag({[kind |-> kind, parent |-> parent, id |-> id]})

Init ==
    /\ MONKEY_WINDOWS_AMOUNT = 0
    /\ MONKEY_FRAMES_AMOUNT = 0
    /\ MONKEY_WINDOW_BUTTONS_AMOUNT = 0
    /\ MONKEY_FRAME_BUTTONS_AMOUNT = 0
    /\ handles = << >>
    /\ panicked = FALSE
    /\ last = NoCall
    /\ minted = EmptyBag
    /\ widthLog = << >>

\* make_child whose Window keeps no borrow of the Root (a pointer in place of &'a Root)
Root_make_child_unborrowed ==
    /\ ~panicked /\ HasFree
    /\ Budget(1)
    /\ LET r == make_window(MONKEY_WINDOWS_AMOUNT)
           child == Window_new(RootRef, r.id, r.amount, TRUE)
           h == FreeSlot
       IN  /\ MONKEY_WINDOWS_AMOUNT' = r.amount
           /\ panicked' = ~child.some
           /\ handles' = Push(handles, child)
           /\ minted' = IF child.some THEN minted (+) Mint("Window", 0, child.val.id)
                        ELSE minted
           /\ last' = Call("make_child", RootRef, 0, child, h)
    /\ UNCHANGED <<MONKEY_FRAMES_AMOUNT, MONKEY_WINDOW_BUTTONS_AMOUNT,
                   MONKEY_FRAME_BUTTONS_AMOUNT>>
    /\ widthLog' = Logged(Len(handles'))

\* fn make_child(&mut self) -> Window<Mutable>
Root_make_child ==
    /\ ~panicked /\ HasFree /\ BorrowMut(RootRef)
    /\ Budget(1)
    /\ LET r == make_window(MONKEY_WINDOWS_AMOUNT)
           child == Window_new(RootRef, r.id, r.amount, TRUE)
           h == FreeSlot
       IN  /\ MONKEY_WINDOWS_AMOUNT' = r.amount
           /\ panicked' = ~child.some
           /\ handles' = Push(handles, child)
           /\ minted' = IF child.some THEN minted (+) Mint("Window", 0, child.val.id)
                        ELSE minted
           /\ last' = Call("make_child", RootRef, 0, child, h)
    /\ UNCHANGED <<MONKEY_FRAMES_AMOUNT, MONKEY_WINDOW_BUTTONS_AMOUNT,
                   MONKEY_FRAME_BUTTONS_AMOUNT>>
    /\ widthLog' = Logged(Len(handles'))

\* fn get_child(&self, id) -> Option<Window<Immutable>>
Root_get_child(id) ==
    /\ ~panicked /\ HasFree /\ BorrowShared(RootRef)
    /\ LET w == Window_new(RootRef, id, MONKEY_WINDOWS_AMOUNT, FALSE)
           h == FreeSlot
       IN  /\ handles' = Push(handles, w)
           /\ last' = Call("get_child", RootRef, id, w, h)
    /\ UNCHANGED <<counters, panicked, minted>>
    /\ widthLog' = Logged(Len(handles'))

\* fn get_child_mut(&mut self, id) -> Option<Window<Mutable>>
Root_get_child_mut(id) ==
    /\ ~panicked /\ HasFree /\ BorrowMut(RootRef)
    /\ LET w == Window_new(RootRef, id, MONKEY_WINDOWS_AMOUNT, TRUE)
           h == FreeSlot
       IN  /\ handles' = Push(handles, w)
           /\ last' = Call("get_child_mut", RootRef, id, w, h)
    /\ UNCHANGED <<counters, panicked, minted>>
    /\ widthLog' = Logged(Len(handles'))

\* fn set_name(&mut self, name) on Window<Mutable>
Window_set_name(h, name) ==
    /\ ~panicked /\ IsA(h, "Window", TRUE) /\ BorrowMut(h)
    /\ handles' = [handles EXCEPT ![h].name = name]
    /\ last' = [NoCall EXCEPT !.op = "set_name", !.recv = h]
    /\ UNCHANGED <<counters, panicked, minted, widthLog>>

\* fn get_frame(&self, id) -> Option<Frame<Immutable>> on Window<Immutable>
Window_get_frame(h, id) ==
    /\ ~panicked /\ HasFree /\ IsA(h, "Window", FALSE) /\ BorrowShared(h)
    /\ Budget(1)
    /\ LET f == Frame_new(h, id, MONKEY_FRAMES_AMOUNT, FALSE)
           s == FreeSlot
       IN  /\ MONKEY_FRAMES_AMOUNT' = f.amount
           /\ handles' = Push(handles, f.opt)
           /\ last' = Call("get_frame", h, id, f.opt, s)
    /\ UNCHANGED <<MONKEY_WINDOWS_AMOUNT, MONKEY_WINDOW_BUTTONS_AMOUNT,
                   MONKEY_FRAME_BUTTONS_AMOUNT, panicked, minted>>
    /\ widthLog' = Logged(Len(handles'))

\* fn get_button(&self, id) -> Option<WindowButton<Immutable>> on Window<Immutable>
Window_get_button(h, id) ==
    /\ ~panicked /\ HasFree /\ IsA(h, "Window", FALSE) /\ BorrowShared(h)
    /\ Budget(1)
    /\ LET b == WindowButton_new(h, id, MONKEY_WINDOW_BUTTONS_AMOUNT, FALSE)
           s == FreeSlot
       IN  /\ MONKEY_WINDOW_BUTTONS_AMOUNT' = b.amount
           /\ handles' = Push(handles, b.opt)
           /\ last' = Call("get_button", h, id, b.opt, s)
    /\ UNCHANGED <<MONKEY_WINDOWS_AMOUNT, MONKEY_FRAMES_AMOUNT,
                   MONKEY_FRAME_BUTTONS_AMOUNT, panicked, minted>>
    /\ widthLog' = Logged(Len(handles'))

\* fn make_frame(&mut self) -> Frame<Mutable> on Window<Mutable>
Window_make_frame(h) ==
    /\ ~panicked /\ HasFree /\ IsA(h, "Window", TRUE) /\ BorrowMut(h)
    /\ Budget(2)
    /\ LET r == make_frame(MONKEY_FRAMES_AMOUNT)
           sub_child == Frame_new(h, r.id, r.amount, TRUE)
           s == FreeSlot
           counted == [handles EXCEPT ![h].frames_amount = @ + 1]
       IN  /\ MONKEY_FRAMES_AMOUNT' = sub_child.amount
           /\ panicked' = ~sub_child.opt.some
           /\ handles' = Push(counted, sub_child.opt)
           /\ minted' = IF sub_child.opt.some
                        THEN minted (+) Mint("Frame", handles[h].id, sub_child.opt.val.id)
                        ELSE minted
           /\ last' = Call("make_frame", h, 0, sub_child.opt, s)
    /\ UNCHANGED <<MONKEY_WINDOWS_AMOUNT, MONKEY_WINDOW_BUTTONS_AMOUNT,
                   MONKEY_FRAME_BUTTONS_AMOUNT>>
    /\ widthLog' = Logged(Len(handles'))

\* fn make_button(&mut self) -> WindowButton<Mutable> on Window<Mutable>
Window_make_button(h) ==
    /\ ~panicked /\ HasFree /\ IsA(h, "Window", TRUE) /\ BorrowMut(h)
    /\ Budget(1)
    /\ LET id == handles[h].buttons_amount
           button == WindowButton_new(h, id, MONKEY_WINDOW_BUTTONS_AMOUNT, TRUE)
           s == FreeSlot
           counted == [handles EXCEPT ![h].buttons_amount = @ + 1]
       IN  /\ MONKEY_WINDOW_BUTTONS_AMOUNT' = button.amount
           /\ panicked' = ~button.opt.some
           /\ handles' = Push(counted, button.opt)
           /\ minted' = IF button.opt.some
                        THEN minted (+) Mint("WindowButton", handles[h].id, button.opt.val.id)
                        ELSE minted
           /\ last' = Call("make_button", h, 0, button.opt, s)
    /\ UNCHANGED <<MONKEY_WINDOWS_AMOUNT, MONKEY_FRAMES_AMOUNT,
                   MONKEY_FRAME_BUTTONS_AMOUNT>>
    /\ widthLog' = Logged(Len(handles'))

\* fn get_button(&self, id) -> Option<FrameButton<Immutable>> on Frame<Immutable>
Frame_get_button(h, id) ==
    /\ ~panicked /\ HasFree /\ IsA(h, "Frame", FALSE) /\ BorrowShared(h)
    /\ Budget(1)
    /\ LET b == FrameButton_new(h, id, MONKEY_FRAME_BUTTONS_AMOUNT, FALSE)
           s == FreeSlot
       IN  /\ MONKEY_FRAME_BUTTONS_AMOUNT' = b.amount
           /\ handles' = Push(handles, b.opt)
           /\ last' = Call("frame_get_button", h, id, b.opt, s)
    /\ UNCHANGED <<MONKEY_WINDOWS_AMOUNT, MONKEY_FRAMES_AMOUNT,
                   MONKEY_WINDOW_BUTTONS_AMOUNT, panicked, minted>>
    /\ widthLog' = Logged(Len(handles'))

\* fn set_width(&mut self, width_px: impl Into<u16>) on Frame<Mutable>
Frame_set_width(h, width_px) ==
    /\ ~panicked /\ IsA(h, "Frame", TRUE) /\ BorrowMut(h)
    /\ handles' = [handles EXCEPT ![h].width_px = <<width_px>>]
    /\ widthLog' = [widthLog EXCEPT ![h] = <<width_px>>]
    /\ last' = [NoCall EXCEPT !.op = "set_width", !.recv = h, !.arg = width_px]
    /\ UNCHANGED <<counters, panicked, minted>>

\* fn make_button(&mut self) -> FrameButton<Mutable> on Frame<Mutable>
Frame_make_button(h) ==
    /\ ~panicked /\ HasFree /\ IsA(h, "Frame", TRUE) /\ BorrowMut(h)
    /\ Budget(1)
    /\ LET id == handles[h].buttons_amount
           button == FrameButton_new(h, id, MONKEY_FRAME_BUTTONS_AMOUNT, TRUE)
           s == FreeSlot
           counted == [handles EXCEPT ![h].buttons_amount = @ + 1]
       IN  /\ MONKEY_FRAME_BUTTONS_AMOUNT' = button.amount
           /\ panicked' = ~button.opt.some
           /\ handles' = Push(counted, button.opt)
           /\ minted' = IF button.opt.some
                        THEN minted (+) Mint("FrameButton", handles[h].id, button.opt.val.id)
                        ELSE minted
           /\ last' = Call("frame_make_button", h, 0, button.opt, s)
    /\ UNCHANGED <<MONKEY_WINDOWS_AMOUNT, MONKEY_FRAMES_AMOUNT,
                   MONKEY_WINDOW_BUTTONS_AMOUNT>>
    /\ widthLog' = Logged(Len(handles'))

\* the caller stops using the handle it obtained last (nothing is borrowed from it)
Drop ==
    /\ ~panicked /\ handles # << >> /\ Children(Len(handles)) = {}
    /\ handles' = SubSeq(handles, 1, Len(handles) - 1)
    /\ widthLog' = Logged(Len(handles'))
    /\ last' = [NoCall EXCEPT !.op = "drop"]
    /\ UNCHANGED <<counters, panicked, minted>>

Next ==
    \/ Root_make_child
    \/ \E id \in Ids : Root_get_child(id)
    \/ \E id \in Ids : Root_get_child_mut(id)
    \/ \E h \in Slots, name \in Names : Window_set_name(h, name)
    \/ \E h \in Slots, id \in Ids : Window_get_frame(h, id)
    \/ \E h \in Slots, id \in Ids : Window_get_button(h, id)
    \/ \E h \in Slots : Window_make_frame(h)
    \/ \E h \in Slots : Window_make_button(h)
    \/ \E h \in Slots, id \in Ids : Frame_get_button(h, id)
    \/ \E h \in Slots, w \in Widths : Frame_set_width(h, w)
    \/ \E h \in Slots : Frame_make_button(h)
    \/ Drop

Spec == Init /\ [][Next]_vars

\* ---- what the history says ----
Made(kind) == {r \in BagToSet(minted) : r.kind = kind}

IssuedIds(kind) == {r.id : r \in Made(kind)}

\* the number of make_child calls that have returned
WindowsMade == BagCardinality([r \in Made("Window") |-> minted[r]])

MakeOps == {"make_child", "make_frame", "make_button", "frame_make_button"}

\* C1: a re-derivation (get_child, get_child_mut, get_frame, get_button on a Window or
\* a Frame) called with an identifier no creation call has returned, 0 included,
\* returns None and does not panic.
C1_UnissuedIdIsAbsent ==
    /\ ~panicked
    /\ (last.op \in {"get_child", "get_child_mut"} /\ last.arg \notin IssuedIds("Window"))
          => ~last.some
    /\ (last.op = "get_frame" /\ last.arg \notin IssuedIds("Frame")) => ~last.some
    /\ (last.op = "get_button" /\ last.arg \notin IssuedIds("WindowButton")) => ~last.some
    /\ (last.op = "frame_get_button" /\ last.arg \notin IssuedIds("FrameButton"))
          => ~last.some

\* C2: the read-only re-derivation called with the id of the child a make_* call has
\* just returned (nothing of that kind minted since: the id is the gateway's counter)
\* succeeds and returns a handle whose get_id is that id.
C2_RoundTrip ==
    /\ (last.op = "get_child" /\ last.arg = last.pre[1]
          /\ last.arg \in IssuedIds("Window"))
          => (last.some /\ last.id = last.arg)
    /\ (last.op = "get_frame" /\ last.arg = last.pre[2]
          /\ last.arg \in IssuedIds("Frame"))
          => (last.some /\ last.id = last.arg)
    /\ (last.op = "get_button" /\ last.arg = last.pre[3]
          /\ last.arg \in IssuedIds("WindowButton"))
          => (last.some /\ last.id = last.arg)
    /\ (last.op = "frame_get_button" /\ last.arg = last.pre[4]
          /\ last.arg \in IssuedIds("FrameButton"))
          => (last.some /\ last.id = last.arg)

\* C3: from a fresh gateway the n-th make_child returns a Window with id n, and after
\* n calls get_child(k) returns a Window with id k for every k in 1..n.
C3_NthWindow ==
    /\ last.op = "make_child" => (last.some /\ last.id = WindowsMade)
    /\ \A k \in 1..WindowsMade :
          LET w == Window_new(RootRef, k, MONKEY_WINDOWS_AMOUNT, FALSE)
          IN  w.some /\ w.val.id = k
    /\ (last.op = "get_child" /\ last.arg \in 1..WindowsMade)
          => (last.some /\ last.id = last.arg /\ handles[last.h].id = last.arg)

C3_Witness ==
    /\ WindowsMade = 2
    /\ last.op = "get_child" /\ last.arg = 1 /\ last.some
    /\ IssuedIds("Window") = {1, 2}

C5_SiblingsDistinct ==
    \A r \in BagToSet(minted) :
        r.kind \in {"Frame", "WindowButton", "FrameButton"} => CopiesIn(r, minted) = 1

C5_Witness ==
    \E r1, r2 \in Made("FrameButton") :
        /\ r1.parent = r2.parent /\ r1.id # r2.id
        /\ \E f \in Made("Frame") : f.id = r1.parent

\* C6: a Frame on which set_width was never called reports its Window's width; after
\* set_width(w) it reports w, until the next set_width.
C6_WidthInheritance ==
    \A h \in 1..Len(handles) :
        handles[h].kind = "Frame" =>
            LET f == handles[h]
                w == handles[f.parent]
            IN  /\ w.kind = "Window"
                /\ IF widthLog[h] = << >>
                   THEN Frame_get_width(f, w) = Window_get_width(w)
                   ELSE Frame_get_width(f, w) = widthLog[h][1]

\* set_width(65535), then make_button and the end of the button's use: still 65535
C6_Witness ==
    /\ last.op = "drop"
    /\ \E h \in 1..Len(handles) :
          /\ IsA(h, "Frame", TRUE)
          /\ widthLog[h] = <<U16Max>>
          /\ handles[h].buttons_amount = 1
          /\ Frame_get_width(handles[h], handles[handles[h].parent]) = U16Max

\* C7: get_frame and get_button on an Immutable Window, and get_button on an Immutable
\* Frame, change no counter: not the receiver's cached frames_amount and
\* buttons_amount, and none of the gateway's four counters.
C7_ReadOnlyKeepsCounters ==
    last.op \in {"get_frame", "get_button", "frame_get_button"} =>
        /\ counters = last.pre
        /\ handles[last.recv].frames_amount = last.preFrames
        /\ handles[last.recv].buttons_amount = last.preButtons

\* C8: make_frame mints exactly one identifier: the gateway's frame counter and the
\* Window's frames_amount each advance by 1 and the Frame returned has the new id.
C8_MakeFrameMintsOne ==
    last.op = "make_frame" =>
        /\ MONKEY_FRAMES_AMOUNT = last.pre[2] + 1
        /\ handles[last.recv].frames_amount = last.preFrames + 1
        /\ last.some /\ last.id = last.pre[2] + 1

\* C9: no creation call reaches its `expect` failure: the process never panics, and
\* every make_* call returns a handle with a non-zero id (for a Window, one that
\* get_window accepts).
C9_CreationInfallible ==
    /\ ~panicked
    /\ last.op \in MakeOps => (last.some /\ last.id # 0 /\ handles[last.h].id = last.id)
    /\ last.op = "make_child" => get_window(last.id, MONKEY_WINDOWS_AMOUNT) # 0

C9_Witness ==
    /\ last.op = "frame_make_button" /\ last.some
    /\ IssuedIds("Window") # {} /\ IssuedIds("Frame") # {}
    /\ IssuedIds("WindowButton") # {}

\* C10: a Window returned by get_child or get_child_mut has an empty name and
\* frames_amount = buttons_amount = 0, whatever was done through earlier handles.
C10_FreshCache ==
    (last.op \in {"get_child", "get_child_mut"} /\ last.some) =>
        /\ handles[last.h].kind = "Window"
        /\ handles[last.h].id = last.arg
        /\ handles[last.h].name = ""
        /\ handles[last.h].frames_amount = 0
        /\ handles[last.h].buttons_amount = 0

\* re-derived after make_frame and make_button through an earlier handle to the id
C10_Witness ==
    /\ last.op = "get_child_mut" /\ last.some
    /\ \E r \in Made("Frame") : r.parent = last.arg
    /\ \E r \in Made("WindowButton") : r.parent = last.arg
====
